---- MODULE Spec2Model ----
(***************************************************************************)
(* A model of the ClassMate key tools:                                     *)
(*   - extract_crx_key.py        extract_key_from_crx3, generate_extension_id *)
(*   - generate_extension_key.py extract_der_from_pem, generate_extension_id  *)
(*                                                                         *)
(* Bytes are the integers 0..255, a bytes object is a sequence of them.    *)
(* Text is a sequence of one-character strings.  Python offsets are        *)
(* 0-based; Slice translates them to the 1-based sequences of TLA+.        *)
(***************************************************************************)
EXTENDS Integers, Sequences, FiniteSets, TLC

VARIABLES
    pc,                \* position in the function that is running
    result,            \* what the call gave back: [tag, val]
    ret_line,          \* source line of the return / raise that ended the call
    printed,           \* the messages print() has written, in order
    \* ---- extract_key_from_crx3
    file,              \* the bytes of the file at crx_path
    pos,               \* the read position of f
    magic, version, header_size, header_data, pubkey_len, sig_len,
    \* ---- generate_extension_id
    public_key_bytes,  \* the argument
    sha256_hash,       \* hashlib.sha256(public_key_bytes).digest()
    extension_id,      \* the string the first call returned
    extension_id2,     \* the string a second call on the same bytes returned
    \* ---- extract_der_from_pem
    pem_content, base64_content

vars == <<pc, result, ret_line, printed, file, pos, magic, version, header_size,
          header_data, pubkey_len, sig_len, public_key_bytes, sha256_hash,
          extension_id, extension_id2, pem_content, base64_content>>

crxVars == <<file, pos, magic, version, header_size, header_data, pubkey_len, sig_len>>
idVars  == <<public_key_bytes, sha256_hash, extension_id, extension_id2>>
pemVars == <<pem_content, base64_content>>

(***************************************************************************)
(* Bounds of the model.                                                    *)
(***************************************************************************)
\* pattern offsets tried in a CRX3 header: 0..MaxOff
MaxOff == 3
\* CRX2 length fields and trailing byte counts: 0..MaxField, 0..2*MaxField
MaxField == 5
\* a file is also cut short at every length 0..MaxCut
MaxCut == 16
\* digests are drawn with first byte 0..MaxSeed
MaxSeed == 40
\* PEM texts are concatenations of at most MaxPieces pieces
MaxPieces == 3

(***************************************************************************)
(* Program constants.                                                      *)
(***************************************************************************)
\* key_length = 294
KeyLength == 294
\* while idx < len(header_data) - 4
MarkerLen == 4
\* while idx < len(header_data) - 300
ScanMargin == 300
\* if 290 <= length <= 300
MinKeyLen == 290
MaxKeyLen == 300
\* header_data[:500]
DumpLen == 500
\* sha256_hash[:16]
IdBytes == 16
\* ord('a')
OrdA == 97

\* b'Cr24'
Cr24 == <<67, 114, 50, 52>>
\* b'\x30\x82\x01\x22'
Marker == <<48, 130, 1, 34>>
\* b'\x30\x82'
SeqTag == <<48, 130>>

Min(a, b) == IF a < b THEN a ELSE b

\* Python's s[i:j] for 0 <= i: the end is clipped to len(s).
Slice(s, i, j) == SubSeq(s, i + 1, Min(j, Len(s)))

\* struct.unpack('<I', b)[0] for a 4-byte b
UnpackLE32(b) == b[1] + 256 * b[2] + 65536 * b[3] + 16777216 * b[4]
\* struct.unpack('>H', b)[0] for a 2-byte b
UnpackBE16(b) == 256 * b[1] + b[2]

None == [tag |-> "None", val |-> <<>>]
Bytes(b) == [tag |-> "bytes", val |-> b]
Raise(exc) == [tag |-> "raise", val |-> exc]
Pending == [tag |-> "pending", val |-> <<>>]

(***************************************************************************)
(* generate_extension_id (extract_crx_key.py:23, generate_extension_key.py:39). *)
(* hashlib is a library: the digest of the argument is an input of the     *)
(* model, 32 bytes long, the same for the same argument.                   *)
(***************************************************************************)
\* byte >> 4, bit by bit: four halvings
RECURSIVE ShiftRight(_, _)
ShiftRight(byte, n) == IF n = 0 THEN byte ELSE ShiftRight(byte \div 2, n - 1)

\* byte & mask, bit by bit
RECURSIVE BitAnd(_, _)
BitAnd(x, mask) ==
    IF x = 0 \/ mask = 0 THEN 0
    ELSE (IF x % 2 = 1 /\ mask % 2 = 1 THEN 1 ELSE 0) + 2 * BitAnd(x \div 2, mask \div 2)

\* chr(n) for the code points the function can produce, ord('a') .. ord('a') + 15
Letters == <<"a", "b", "c", "d", "e", "f", "g", "h", "i", "j", "k", "l", "m", "n", "o", "p">>
Chr(n) == Letters[n - OrdA + 1]

\* AppendByte with the two nibbles in the wrong order
AppendByteSwapped(extension_id_, byte) ==
    Append(Append(extension_id_, Chr(OrdA + BitAnd(byte, 15))),
           Chr(OrdA + ShiftRight(byte, 4)))

\* the body of the for loop: two characters appended for one byte
AppendByte(extension_id_, byte) ==
    Append(Append(extension_id_, Chr(OrdA + ShiftRight(byte, 4))),
           Chr(OrdA + BitAnd(byte, 15)))

\* for byte in first_16_bytes: ...   (starting from extension_id = '')
RECURSIVE IdLoop(_, _, _)
IdLoop(first_16_bytes, i, acc) ==
    IF i > Len(first_16_bytes) THEN acc
    ELSE IdLoop(first_16_bytes, i + 1, AppendByte(acc, first_16_bytes[i]))

\* digest is hashlib.sha256(public_key_bytes_).digest()
generate_extension_id(public_key_bytes_, digest) ==
    LET first_16_bytes == Slice(digest, 0, IdBytes)
    IN  IdLoop(first_16_bytes, 1, <<>>)

(***************************************************************************)
(* extract_key_from_crx3 (extract_crx_key.py:33).                          *)
(***************************************************************************)
NoKey == [found |-> FALSE, idx |-> 0, key |-> <<>>]
Found(idx, key) == [found |-> TRUE, idx |-> idx, key |-> key]

\* the first idx a while loop returns at: the least one that passes its test
FirstHit(hits) == CHOOSE idx \in hits : \A other \in hits : idx <= other

\* lines 64-70: the test of the fixed-signature loop at idx
Pass1Test(h, idx) ==
    /\ Slice(h, idx, idx + 4) = Marker
    /\ Len(Slice(h, idx, idx + KeyLength)) = KeyLength

\* Pass1Loop with the loop bound  idx < len(header_data) - 294
Pass1LoopShort(h) ==
    LET hits == {idx \in 0..(Len(h) - KeyLength - 1) : Pass1Test(h, idx)}
    IN  IF hits = {} THEN NoKey
        ELSE Found(FirstHit(hits), Slice(h, FirstHit(hits), FirstHit(hits) + KeyLength))

\* lines 61-72: idx runs over 0, 1, ... while idx < len(header_data) - 4, and the
\* loop returns at the first idx that passes the test
Pass1Loop(h) ==
    LET hits == {idx \in 0..(Len(h) - MarkerLen - 1) : Pass1Test(h, idx)}
    IN  IF hits = {} THEN NoKey
        ELSE Found(FirstHit(hits), Slice(h, FirstHit(hits), FirstHit(hits) + KeyLength))

\* LengthInRange with the lower bound off by one
LengthInRangeWide(length) == MinKeyLen - 1 <= length /\ length <= MaxKeyLen

\* line 81: 290 <= length <= 300
LengthInRange(length) == MinKeyLen <= length /\ length <= MaxKeyLen

\* lines 79-81: the test of the variable-length loop at idx
Pass2Test(h, idx) ==
    /\ Slice(h, idx, idx + 2) = SeqTag
    /\ LengthInRange(UnpackBE16(Slice(h, idx + 2, idx + 4)))

\* lines 76-89: idx runs over 0, 1, ... while idx < len(header_data) - 300, and the
\* loop returns at the first idx that passes the test
Pass2Loop(h) ==
    LET hits == {idx \in 0..(Len(h) - ScanMargin - 1) : Pass2Test(h, idx)}
    IN  IF hits = {} THEN NoKey
        ELSE LET idx == FirstHit(hits)
                 length == UnpackBE16(Slice(h, idx + 2, idx + 4))
             IN  Found(idx, Slice(h, idx, idx + 4 + length))

\* f.read(n) at position p of the file
Read(f, p, n) == Slice(f, p, p + n)

Return(value, line) ==
    /\ result' = value
    /\ ret_line' = line
    /\ pc' = "done"

\* struct.unpack on fewer than 4 bytes
StructError(line) ==
    /\ result' = Raise("struct.error")
    /\ ret_line' = line
    /\ pc' = "raised"

\* lines 35-40
ReadMagic ==
    /\ pc = "open"
    /\ magic' = Read(file, pos, 4)
    /\ pos' = pos + Len(magic')
    /\ IF magic' # Cr24
       THEN /\ printed' = Append(printed, <<"Error: Not a valid CRX file", 0>>)
            /\ Return(None, 40)
       ELSE /\ pc' = "version"
            /\ UNCHANGED <<printed, result, ret_line>>
    /\ UNCHANGED <<version, header_size, header_data, pubkey_len, sig_len>>
    /\ UNCHANGED <<file, idVars, pemVars>>

\* lines 43-44
ReadVersion ==
    /\ pc = "version"
    /\ LET b == Read(file, pos, 4) IN
       /\ pos' = pos + Len(b)
       /\ IF Len(b) # 4
          THEN /\ StructError(43)
               /\ UNCHANGED <<version, printed>>
          ELSE /\ version' = UnpackLE32(b)
               /\ printed' = Append(printed, <<"CRX Version", version'>>)
               /\ pc' = "dispatch"
               /\ UNCHANGED <<result, ret_line>>
    /\ UNCHANGED <<magic, header_size, header_data, pubkey_len, sig_len>>
    /\ UNCHANGED <<file, idVars, pemVars>>

\* lines 46-51: version == 3, the header is read
Crx3ReadHeader ==
    /\ pc = "dispatch"
    /\ version = 3
    /\ LET b == Read(file, pos, 4) IN
       IF Len(b) # 4
       THEN /\ pos' = pos + Len(b)
            /\ StructError(48)
            /\ UNCHANGED <<header_size, header_data, printed>>
       ELSE /\ header_size' = UnpackLE32(b)
            /\ printed' = Append(printed, <<"Header size", header_size'>>)
            /\ header_data' = Read(file, pos + 4, header_size')
            /\ pos' = pos + 4 + Len(header_data')
            /\ pc' = "pass1"
            /\ UNCHANGED <<result, ret_line>>
    /\ UNCHANGED <<magic, version, pubkey_len, sig_len>>
    /\ UNCHANGED <<file, idVars, pemVars>>

\* Pass1 that hands over to the variable-length loop as soon as that loop has a
\* match, whatever the fixed-signature loop would find
Pass1TagFirst ==
    /\ pc = "pass1"
    /\ LET r == Pass1Loop(header_data) IN
       IF r.found /\ ~Pass2Loop(header_data).found
       THEN Return(Bytes(r.key), 71)
       ELSE /\ pc' = "pass2"
            /\ UNCHANGED <<result, ret_line>>
    /\ UNCHANGED <<printed, crxVars, idVars, pemVars>>

\* lines 61-72
Pass1 ==
    /\ pc = "pass1"
    /\ LET r == Pass1Loop(header_data) IN
       IF r.found
       THEN Return(Bytes(r.key), 71)
       ELSE /\ pc' = "pass2"
            /\ UNCHANGED <<result, ret_line>>
    /\ UNCHANGED <<printed, crxVars, idVars, pemVars>>

\* the digests hashlib hands to the test_id computation of line 85
CrxDigests == {[i \in 1..32 |-> (s + 17 * i) % 256] : s \in {0, 9}}

\* lines 76-93
Pass2 ==
    /\ pc = "pass2"
    /\ LET r == Pass2Loop(header_data) IN
       IF r.found
       THEN \E d \in CrxDigests :
              /\ public_key_bytes' = r.key
              /\ sha256_hash' = d
              /\ extension_id' = generate_extension_id(r.key, d)
              /\ printed' = Append(printed, <<"Found potential key at offset", r.idx>>)
              /\ Return(Bytes(r.key), 88)
       ELSE /\ printed' = printed \o
                   << <<"Could not find public key in CRX3 header", 0>>,
                      <<"Header data (first 500 bytes hex)", Len(Slice(header_data, 0, DumpLen))>> >>
            /\ Return(None, 93)
            /\ UNCHANGED <<public_key_bytes, sha256_hash, extension_id>>
    /\ UNCHANGED <<crxVars, extension_id2, pemVars>>

\* lines 95-103: version == 2
Crx2 ==
    /\ pc = "dispatch"
    /\ version # 3
    /\ version = 2
    /\ LET b1 == Read(file, pos, 4)
           b2 == Read(file, pos + 4, 4)
       IN  IF Len(b1) # 4
           THEN /\ pos' = pos + Len(b1)
                /\ StructError(97)
                /\ UNCHANGED <<pubkey_len, sig_len, printed>>
           ELSE IF Len(b2) # 4
           THEN /\ pubkey_len' = UnpackLE32(b1)
                /\ pos' = pos + 4 + Len(b2)
                /\ StructError(98)
                /\ UNCHANGED <<sig_len, printed>>
           ELSE /\ pubkey_len' = UnpackLE32(b1)
                /\ sig_len' = UnpackLE32(b2)
                /\ LET public_key == Read(file, pos + 8, pubkey_len') IN
                   /\ pos' = pos + 8 + Len(public_key)
                   /\ printed' = Append(printed, <<"Public key length", pubkey_len'>>)
                   /\ Return(Bytes(public_key), 103)
    /\ UNCHANGED <<magic, version, header_size, header_data>>
    /\ UNCHANGED <<file, idVars, pemVars>>

\* lines 104-106
UnknownVersion ==
    /\ pc = "dispatch"
    /\ version # 3
    /\ version # 2
    /\ printed' = Append(printed, <<"Unknown CRX version", version>>)
    /\ Return(None, 106)
    /\ UNCHANGED <<crxVars, idVars, pemVars>>

(***************************************************************************)
(* The files the extraction is run on.                                     *)
(***************************************************************************)
\* n bytes that hold no 0x30 and no 0x82, and differ from offset to offset
Fill(n) == [i \in 1..n |-> 1 + ((i - 1) % 7)]

\* h with pat written at offset off (what falls past the end is dropped)
Overlay(h, off, pat) ==
    [i \in 1..Len(h) |-> IF off < i /\ i <= off + Len(pat) THEN pat[i - off] ELSE h[i]]

RECURSIVE OverlayAll(_, _, _)
OverlayAll(h, offs, pat) ==
    IF offs = <<>> THEN h ELSE OverlayAll(Overlay(h, Head(offs), pat), Tail(offs), pat)

PackLE32(n) == <<n % 256, (n \div 256) % 256, (n \div 65536) % 256, n \div 16777216>>
PackBE16(n) == <<n \div 256, n % 256>>

\* a 30 82 tag with declared length len, at offset b; then the markers
Header(n, markers, b, len) ==
    LET tagged == IF b < 0 THEN Fill(n) ELSE Overlay(Fill(n), b, SeqTag \o PackBE16(len))
    IN  OverlayAll(tagged, markers, Marker)

HeaderLens == (0..MaxOff) \cup ((KeyLength - 1)..(ScanMargin + MaxOff + 4))
MarkerChoices == {<<>>} \cup {<<a>> : a \in 0..(MaxOff + 2)} \cup {<<a, a + 4>> : a \in 0..1}
TagLens == {MinKeyLen - 1, (MinKeyLen + MaxKeyLen) \div 2, MaxKeyLen, MaxKeyLen + 1}

Headers ==
    {Header(n, m, b, len) : n \in HeaderLens, m \in MarkerChoices,
                            b \in -1..MaxOff, len \in TagLens}

\* the ZIP content that follows the header
Zip == <<80, 75>>

Crx3Files ==
    {Cr24 \o PackLE32(3) \o PackLE32(Len(h)) \o h \o Zip : h \in Headers}
    \cup
    {Cr24 \o PackLE32(3) \o PackLE32(Len(h) + d) \o h :
        h \in {x \in Headers : Len(x) <= MaxOff}, d \in 1..2}

Crx2Files ==
    {Cr24 \o PackLE32(2) \o PackLE32(pk) \o PackLE32(sg) \o Fill(t) :
        pk \in 0..MaxField, sg \in 0..MaxField, t \in 0..(2 * MaxField)}

BaseFiles ==
    { <<67, 114, 50, 53>> \o PackLE32(3) \o PackLE32(4) \o Fill(4) \o Zip,
      Cr24 \o PackLE32(1) \o PackLE32(4) \o Fill(4) \o Zip,
      Cr24 \o PackLE32(4) \o PackLE32(4) \o Fill(4) \o Zip,
      Cr24 \o PackLE32(2) \o PackLE32(2) \o PackLE32(2) \o Fill(4),
      Cr24 \o PackLE32(3) \o PackLE32(4) \o Fill(4) \o Zip }

CutFiles == {Slice(f, 0, c) : f \in BaseFiles, c \in 0..MaxCut}

Files == Crx3Files \cup Crx2Files \cup CutFiles

NoDigest == <<>>

InitCrx ==
    /\ file \in Files
    /\ pos = 0
    /\ pc = "open"
    /\ result = Pending
    /\ ret_line = 0
    /\ printed = <<>>
    /\ magic = <<>> /\ version = -1 /\ header_size = -1 /\ header_data = <<>>
    /\ pubkey_len = -1 /\ sig_len = -1
    /\ public_key_bytes = <<>> /\ sha256_hash = NoDigest
    /\ extension_id = <<>> /\ extension_id2 = <<>>
    /\ pem_content = <<>> /\ base64_content = <<>>

NextCrx ==
    \/ ReadMagic
    \/ ReadVersion
    \/ Crx3ReadHeader
    \/ Pass1
    \/ Pass2
    \/ Crx2
    \/ UnknownVersion

SpecCrx == InitCrx /\ [][NextCrx]_vars

(***************************************************************************)
(* Two calls of generate_extension_id on the same bytes.                   *)
(***************************************************************************)
\* the 32-byte digests hashlib may hand back
Digests ==
    {[i \in 1..32 |-> (s + st * (i - 1)) % 256] : s \in 0..MaxSeed, st \in {1, 17, 83}}

Keys == {<<>>, <<0>>, Marker, Fill(MaxOff)}

InitId ==
    /\ public_key_bytes \in Keys
    /\ sha256_hash \in Digests
    /\ pc = "id_call"
    /\ extension_id = <<>> /\ extension_id2 = <<>>
    /\ result = Pending
    /\ ret_line = 0
    /\ printed = <<>>
    /\ file = <<>> /\ pos = 0
    /\ magic = <<>> /\ version = -1 /\ header_size = -1 /\ header_data = <<>>
    /\ pubkey_len = -1 /\ sig_len = -1
    /\ pem_content = <<>> /\ base64_content = <<>>

\* the first call
CallId ==
    /\ pc = "id_call"
    /\ extension_id' = generate_extension_id(public_key_bytes, sha256_hash)
    /\ pc' = "id_again"
    /\ UNCHANGED <<result, ret_line, printed, crxVars, pemVars>>
    /\ UNCHANGED <<public_key_bytes, sha256_hash, extension_id2>>

\* the second call, on the same bytes
CallIdAgain ==
    /\ pc = "id_again"
    /\ extension_id2' = generate_extension_id(public_key_bytes, sha256_hash)
    /\ pc' = "id_done"
    /\ UNCHANGED <<result, ret_line, printed, crxVars, pemVars>>
    /\ UNCHANGED <<public_key_bytes, sha256_hash, extension_id>>

NextId ==
    \/ CallId
    \/ CallIdAgain

SpecId == InitId /\ [][NextId]_vars

(***************************************************************************)
(* extract_der_from_pem (generate_extension_key.py:21).                    *)
(***************************************************************************)
BeginPK ==
    <<"-", "-", "-", "-", "-", "B", "E", "G", "I", "N", " ", "P", "R", "I", "V", "A", "T",
      "E", " ", "K", "E", "Y", "-", "-", "-", "-", "-">>
BeginRSA ==
    <<"-", "-", "-", "-", "-", "B", "E", "G", "I", "N", " ", "R", "S", "A", " ", "P", "R",
      "I", "V", "A", "T", "E", " ", "K", "E", "Y", "-", "-", "-", "-", "-">>
EndPK ==
    <<"-", "-", "-", "-", "-", "E", "N", "D", " ", "P", "R", "I", "V", "A", "T", "E", " ",
      "K", "E", "Y", "-", "-", "-", "-", "-">>
EndRSA ==
    <<"-", "-", "-", "-", "-", "E", "N", "D", " ", "R", "S", "A", " ", "P", "R", "I", "V",
      "A", "T", "E", " ", "K", "E", "Y", "-", "-", "-", "-", "-">>

\* the characters \s matches and str.strip() strips, among those the texts hold
Whitespace == {" ", "\n", "\r", "\t"}

StartsAt(t, i, pat) == Slice(t, i, i + Len(pat)) = pat

\* -----BEGIN (?:RSA )?PRIVATE KEY-----  at offset i: the length matched, or 0
BeginAt(t, i) ==
    IF StartsAt(t, i, BeginRSA) THEN Len(BeginRSA)
    ELSE IF StartsAt(t, i, BeginPK) THEN Len(BeginPK) ELSE 0

\* -----END (?:RSA )?PRIVATE KEY-----  at offset j
EndAt(t, j) == StartsAt(t, j, EndRSA) \/ StartsAt(t, j, EndPK)

\* str.strip(): leading and trailing whitespace removed
Strip(t) ==
    LET solid == {i \in 1..Len(t) : t[i] \notin Whitespace}
    IN  IF solid = {} THEN <<>>
        ELSE SubSeq(t, CHOOSE i \in solid : \A k \in solid : i <= k,
                       CHOOSE i \in solid : \A k \in solid : i >= k)

NoMatch == [matched |-> FALSE, group1 |-> <<>>]

\* re.search(r'-----BEGIN (?:RSA )?PRIVATE KEY-----\s*(.*?)\s*-----END (?:RSA )?PRIVATE KEY-----',
\*           t, re.DOTALL)
\* The leftmost offset where the whole pattern matches is taken.  There, the first
\* \s* is greedy and takes the whole run of whitespace after the BEGIN line, (.*?)
\* is lazy and stops at the first offset from which whitespace and then an END
\* line follow: group 1 ends before the whitespace that precedes the first END line.
ReSearch(t) ==
    LET starts == {i \in 0..(Len(t) - 1) :
                      /\ BeginAt(t, i) > 0
                      /\ \E j \in (i + BeginAt(t, i))..(Len(t) - 1) : EndAt(t, j)}
    IN  IF starts = {} THEN NoMatch
        ELSE LET i == CHOOSE x \in starts : \A y \in starts : x <= y
                 p == i + BeginAt(t, i)
                 ends == {j \in p..(Len(t) - 1) : EndAt(t, j)}
                 j == CHOOSE x \in ends : \A y \in ends : x <= y
                 lead == {k \in p..j : \A m \in p..(k - 1) : t[m + 1] \in Whitespace}
                 s == CHOOSE x \in lead : \A y \in lead : x >= y
                 trail == {k \in s..j : \A m \in k..(j - 1) : t[m + 1] \in Whitespace}
                 e == CHOOSE x \in trail : \A y \in trail : x <= y
             IN  [matched |-> TRUE, group1 |-> Slice(t, s, e)]

\* .replace('\n', '').replace('\r', '').replace(' ', '')
Kept(c) == c \notin {"\n", "\r", " "}
RemoveBreaks(t) == SelectSeq(t, Kept)

B64Alphabet ==
    <<"A", "B", "C", "D", "E", "F", "G", "H", "I", "J", "K", "L", "M", "N", "O", "P", "Q",
      "R", "S", "T", "U", "V", "W", "X", "Y", "Z", "a", "b", "c", "d", "e", "f", "g", "h",
      "i", "j", "k", "l", "m", "n", "o", "p", "q", "r", "s", "t", "u", "v", "w", "x", "y",
      "z", "0", "1", "2", "3", "4", "5", "6", "7", "8", "9", "+", "/">>

\* table_a2b_base64: the 6-bit value of an alphabet character
B64Value(c) == (CHOOSE i \in 1..64 : B64Alphabet[i] = c) - 1
InAlphabet(c) == \E i \in 1..64 : B64Alphabet[i] = c
Relevant(c) == c = "=" \/ InAlphabet(c)

\* base64.b64decode(s) without validation: characters outside the alphabet are
\* skipped, a complete run of padding ends the input, and data left in an
\* incomplete quad is an error.  st is the decoder's state after the characters
\* before offset i.
RECURSIVE A2bLoop(_, _, _)
A2bLoop(s, i, st) ==
    IF i > Len(s) THEN
        IF st.quad_pos # 0 THEN Raise("binascii.Error") ELSE Bytes(st.out)
    ELSE IF s[i] = "=" THEN
        IF st.quad_pos >= 2 /\ st.quad_pos + st.pads + 1 >= 4
        THEN Bytes(st.out)
        ELSE A2bLoop(s, i + 1,
                     [st EXCEPT !.pads = IF st.quad_pos >= 2 THEN st.pads + 1 ELSE st.pads])
    ELSE LET v == B64Value(s[i]) IN
        IF st.quad_pos = 0
        THEN A2bLoop(s, i + 1, [st EXCEPT !.pads = 0, !.quad_pos = 1, !.leftchar = v])
        ELSE IF st.quad_pos = 1
        THEN A2bLoop(s, i + 1, [st EXCEPT !.pads = 0, !.quad_pos = 2,
                                          !.out = Append(st.out, (st.leftchar * 4 + v \div 16) % 256),
                                          !.leftchar = v % 16])
        ELSE IF st.quad_pos = 2
        THEN A2bLoop(s, i + 1, [st EXCEPT !.pads = 0, !.quad_pos = 3,
                                          !.out = Append(st.out, (st.leftchar * 16 + v \div 4) % 256),
                                          !.leftchar = v % 4])
        ELSE A2bLoop(s, i + 1, [st EXCEPT !.pads = 0, !.quad_pos = 0,
                                          !.out = Append(st.out, (st.leftchar * 64 + v) % 256),
                                          !.leftchar = 0])

B64Decode(s) ==
    A2bLoop(SelectSeq(s, Relevant), 1, [quad_pos |-> 0, leftchar |-> 0, pads |-> 0, out |-> <<>>])

\* line 24
PemStrip ==
    /\ pc = "pem_strip"
    /\ pem_content' = Strip(pem_content)
    /\ pc' = "pem_search"
    /\ UNCHANGED <<result, ret_line, printed, base64_content, crxVars, idVars>>

\* lines 27-36
PemSearch ==
    /\ pc = "pem_search"
    /\ LET match == ReSearch(pem_content) IN
       IF ~match.matched
       THEN /\ result' = Raise("ValueError")
            /\ ret_line' = 34
            /\ pc' = "raised"
            /\ UNCHANGED base64_content
       ELSE /\ base64_content' = RemoveBreaks(match.group1)
            /\ pc' = "pem_decode"
            /\ UNCHANGED <<result, ret_line>>
    /\ UNCHANGED <<printed, pem_content, crxVars, idVars>>

\* line 37
PemDecode ==
    /\ pc = "pem_decode"
    /\ result' = B64Decode(base64_content)
    /\ ret_line' = 37
    /\ pc' = IF result'.tag = "raise" THEN "raised" ELSE "done"
    /\ UNCHANGED <<printed, pemVars, crxVars, idVars>>

\* what the texts are put together from
Pieces ==
    { BeginPK, BeginRSA, EndPK, EndRSA,
      <<"\n">>, <<"Q", "U", "J", "D", "\n">>, <<" ", "Q", "Q", "=", "=">>, <<"Q", "U", "\t">> }

RECURSIVE Texts(_)
Texts(n) ==
    IF n = 0 THEN {<<>>}
    ELSE Texts(n - 1) \cup {t \o p : t \in Texts(n - 1), p \in Pieces}

InitPem ==
    /\ pem_content \in Texts(MaxPieces)
    /\ base64_content = <<>>
    /\ pc = "pem_strip"
    /\ result = Pending
    /\ ret_line = 0
    /\ printed = <<>>
    /\ file = <<>> /\ pos = 0
    /\ magic = <<>> /\ version = -1 /\ header_size = -1 /\ header_data = <<>>
    /\ pubkey_len = -1 /\ sig_len = -1
    /\ public_key_bytes = <<>> /\ sha256_hash = NoDigest
    /\ extension_id = <<>> /\ extension_id2 = <<>>

NextPem ==
    \/ PemStrip
    \/ PemSearch
    \/ PemDecode

SpecPem == InitPem /\ [][NextPem]_vars

(***************************************************************************)
(* Properties.  The helpers below restate the patterns from the byte       *)
(* values, without the operators of the model.                             *)
(***************************************************************************)
Terminal == pc \in {"done", "raised"}

\* the CRX3 branch ran to a return
Crx3Done == pc = "done" /\ version = 3

\* 30 82 01 22 at offset k of h
MarkerAt(h, k) ==
    /\ k + 4 <= Len(h)
    /\ h[k + 1] = 48 /\ h[k + 2] = 130 /\ h[k + 3] = 1 /\ h[k + 4] = 34

\* the marker at offset k with at least 294 bytes from k on
MarkerWithRoom(h, k) == MarkerAt(h, k) /\ k + 294 <= Len(h)

\* 30 82 at offset k of h, followed by a big-endian length
TagAt(h, k) == k + 4 <= Len(h) /\ h[k + 1] = 48 /\ h[k + 2] = 130
TagLength(h, k) == 256 * h[k + 3] + h[k + 4]

\* a 30 82 tag at offset k with a length in 290..300
QualifyingTag(h, k) == TagAt(h, k) /\ 290 <= TagLength(h, k) /\ TagLength(h, k) <= 300

Offsets(h) == 0..Len(h)

NoPass1Hit(h) == \A i \in Offsets(h) : ~MarkerWithRoom(h, i)

\* python's h[i:j] when the whole range lies inside h
Range(h, i, j) == [x \in 1..(j - i) |-> h[i + x]]

(* C1: for every byte sequence, the empty one included, generate_extension_id
   returns exactly 32 characters, each in 'a'..'p'; character 2j is 'a' + the high
   nibble and character 2j+1 is 'a' + the low nibble of digest byte j, for the first
   16 digest bytes; a second call on the same bytes returns the same string. *)
AtoP == <<"a", "b", "c", "d", "e", "f", "g", "h", "i", "j", "k", "l", "m", "n", "o", "p">>
C1_ExtensionIdShape ==
    pc = "id_done" =>
        /\ Len(extension_id) = 32
        /\ \A i \in 1..32 : \E n \in 1..16 : extension_id[i] = AtoP[n]
        /\ \A j \in 0..15 :
              /\ extension_id[2 * j + 1] = AtoP[(sha256_hash[j + 1] \div 16) + 1]
              /\ extension_id[2 * j + 2] = AtoP[(sha256_hash[j + 1] % 16) + 1]
        /\ extension_id2 = extension_id

\* both calls made on the empty byte sequence, with a digest that yields 'a' and 'p'
C1_Witness ==
    /\ pc = "id_done"
    /\ public_key_bytes = <<>>
    /\ \E i \in 1..32 : extension_id[i] = "p"
    /\ \E i \in 1..32 : extension_id[i] = "a"
    /\ extension_id2 = extension_id

(* C2, as stated: for every header that holds the marker 30 82 01 22 at offset k
   with k + 294 <= len(header), the CRX3 parse returns header[k : k + 294]. *)
C2_AnyMarkerReturned ==
    Crx3Done =>
        \A k \in Offsets(header_data) :
            MarkerWithRoom(header_data, k) => result = Bytes(Range(header_data, k, k + 294))

(* C2, amended: for every header that holds the marker 30 82 01 22 at offset k with
   k + 294 <= len(header), and no marker at a lower offset, the CRX3 parse returns
   header[k : k + 294], unmodified. *)
C2_FirstMarkerReturned ==
    Crx3Done =>
        \A k \in Offsets(header_data) :
            (/\ MarkerWithRoom(header_data, k)
             /\ \A i \in 0..(k - 1) : ~MarkerAt(header_data, i))
            => result = Bytes(Range(header_data, k, k + 294))

\* the marker sits at an offset k > 0 and the header ends exactly at k + 294
C2_Witness ==
    /\ Crx3Done
    /\ \E k \in 1..Len(header_data) :
          /\ MarkerAt(header_data, k)
          /\ k + 294 = Len(header_data)
          /\ \A i \in 0..(k - 1) : ~MarkerAt(header_data, i)
          /\ result = Bytes(Range(header_data, k, k + 294))

(* C3: for every header in which pass 1 finds nothing and which holds a 30 82 tag at
   offset k followed by the big-endian length 295, with header[k : k + 299] present
   and no earlier qualifying tag, the CRX3 parse returns header[k : k + 299], for
   every such k up to len(header) - 299. *)
C3_VariableLengthPass ==
    Crx3Done =>
        \A k \in Offsets(header_data) :
            (/\ NoPass1Hit(header_data)
             /\ TagAt(header_data, k) /\ TagLength(header_data, k) = 295
             /\ k + 299 <= Len(header_data)
             /\ \A i \in 0..(k - 1) : ~QualifyingTag(header_data, i))
            => result = Bytes(Range(header_data, k, k + 299))

(* C4: the CRX2 branch reads pubkey_len and sig_len and returns the next pubkey_len
   bytes as the key when at least pubkey_len + sig_len bytes follow; when fewer
   bytes follow it fails (TruncatedContainer) and returns no key (an empty bytes
   object is counted as no key). *)
C4_Crx2Parse ==
    (Terminal /\ magic = Cr24 /\ version = 2 /\ Len(file) >= 16) =>
        IF Len(file) - 16 >= pubkey_len + sig_len
        THEN result = Bytes(Range(file, 16, 16 + pubkey_len))
        ELSE result.tag # "bytes" \/ result.val = <<>>

(* C5: a magic other than 'Cr24' fails with MalformedContainer; otherwise version 2
   runs only the CRX2 logic, version 3 reads the header length and exactly that many
   header bytes and runs only the CRX3 logic, any other version fails with
   UnsupportedVersion; the failure kinds can be told apart in the returned result:
   the returned value names the kind. *)
C5_DispatcherRouting ==
    Terminal =>
        /\ magic # Cr24 => (ret_line = 40 /\ result.tag = "MalformedContainer")
        /\ (magic = Cr24 /\ Len(file) >= 8) =>
              LET v == file[5] + 256 * file[6] + 65536 * file[7] + 16777216 * file[8] IN
              /\ v = 2 => (ret_line = 103 /\ header_data = <<>>)
              /\ v = 3 => /\ ret_line \in {71, 88, 93}
                          /\ pubkey_len = -1
                          /\ Len(header_data) = header_size
                          /\ header_data = Range(file, 12, 12 + header_size)
              /\ v \notin {2, 3} => (ret_line = 106 /\ result.tag = "UnsupportedVersion")
        /\ ret_line = 93 => result.tag = "KeyNotFound"

(* C6: for every input, also one that ends inside the version field, the header
   length field or a CRX2 length field, the call returns a key or a failure value;
   it never ends by raising an exception. *)
C6_NeverRaises == pc # "raised"

(* C7: for every header in which no offset holds the marker with 294 bytes available
   and no offset holds a 30 82 tag with a length in 290..300, the CRX3 parse returns
   the key-not-found failure, after both passes and nothing else, and the header
   bytes are those read from the file. *)
C7_KeyNotFound ==
    Crx3Done =>
        ((/\ \A k \in Offsets(header_data) : ~MarkerWithRoom(header_data, k)
          /\ \A k \in Offsets(header_data) : ~QualifyingTag(header_data, k))
         => /\ result = None
            /\ ret_line = 93
            /\ Len(printed) = 4
            /\ printed[3][1] = "Could not find public key in CRX3 header"
            /\ header_data = Range(file, 12, 12 + Len(header_data)))

\* neither pattern, in a header long enough for pass 2 to scan a 30 82 tag
\* whose length lies outside 290..300
C7_Witness ==
    /\ Crx3Done
    /\ result = None
    /\ Len(header_data) > 304
    /\ \A k \in Offsets(header_data) : ~MarkerAt(header_data, k)
    /\ \A k \in Offsets(header_data) : ~QualifyingTag(header_data, k)
    /\ \E k \in 0..3 : TagAt(header_data, k) /\ TagLength(header_data, k) = 289

(* C8: extract_der_from_pem returns decoded bytes only when the text holds a BEGIN
   marker followed by an END marker of the same kind; for every text with no such
   block it fails with the malformed-container error (ValueError) and returns no
   bytes. *)
Occurs(t, i, pat) ==
    /\ i + Len(pat) <= Len(t)
    /\ \A x \in 1..Len(pat) : t[i + x] = pat[x]
SameKindBlock(t) ==
    \E i \in 0..Len(t) : \E j \in 0..Len(t) :
        \/ Occurs(t, i, BeginPK) /\ j >= i + Len(BeginPK) /\ Occurs(t, j, EndPK)
        \/ Occurs(t, i, BeginRSA) /\ j >= i + Len(BeginRSA) /\ Occurs(t, j, EndRSA)
C8_PemBlock ==
    Terminal =>
        /\ result.tag = "bytes" => SameKindBlock(pem_content)
        /\ ~SameKindBlock(pem_content) => result = Raise("ValueError")

(* C9: pass 2 runs only after pass 1 has scanned the whole header without
   returning; whenever some offset holds the marker with at least 294 bytes
   remaining, the result is the 294 bytes at the lowest such offset, even if a
   30 82 tag with a length in 290..300 sits at a lower offset. *)
C9_PassOrdering ==
    /\ (pc = "pass2" \/ ret_line \in {88, 93}) => NoPass1Hit(header_data)
    /\ Crx3Done =>
          \A i \in Offsets(header_data) :
              (/\ MarkerWithRoom(header_data, i)
               /\ \A k \in 0..(i - 1) : ~MarkerWithRoom(header_data, k))
              => (ret_line = 71 /\ result = Bytes(Range(header_data, i, i + 294)))

\* a qualifying tag that pass 2 would take lies below the marker that is returned
C9_Witness ==
    /\ Crx3Done
    /\ \E i \in Offsets(header_data) : \E k \in 0..(i - 1) :
          /\ MarkerWithRoom(header_data, i)
          /\ QualifyingTag(header_data, k)
          /\ k < Len(header_data) - 300
          /\ result = Bytes(Range(header_data, i, i + 294))

(* C10: every key the CRX3 parse returns is a complete slice of the header: a pass-1
   result is 294 bytes long and starts with 30 82 01 22; a pass-2 result taken at
   offset i with declared length L has length exactly 4 + L, with
   i + 4 + L <= len(header). *)
C10_CompleteSlice ==
    (Crx3Done /\ result.tag = "bytes") =>
        /\ ret_line = 71 => (Len(result.val) = 294 /\ MarkerAt(result.val, 0))
        /\ ret_line = 88 =>
              LET i == printed[Len(printed)][2]
                  L == TagLength(header_data, i)
              IN  /\ 290 <= L /\ L <= 300
                  /\ Len(result.val) = 4 + L
                  /\ i + 4 + L <= Len(header_data)

====
